---- MODULE Spec2Model ----
(***************************************************************************)
(* Model of tagconfig (src/tagconfig.go): Process fills a struct from a    *)
(* TagValueGetter, PopulateExternalSource pushes a struct's fields to a    *)
(* TagValueSetter.  A struct type is a sequence of field declarations, a   *)
(* struct value the sequence of its fields' values.  Go strings that are   *)
(* parsed (source values, default annotations, field contents) are         *)
(* sequences of one-character strings; tag keys are only compared with     *)
(* "" and are plain strings.                                               *)
(***************************************************************************)
EXTENDS Integers, Sequences

\* Largest number of fields declared in the struct handed to a call.
MaxFields == 2

----------------------------------------------------------------------------
\* Errors.  One record shape for every error value the package can return.

NoErr == [type |-> "nil", key |-> "", value |-> <<>>, typeName |-> ""]

\* var ErrInvalidSpecification
ErrInvalidSpecification ==
    [type |-> "ErrInvalidSpecification", key |-> "", value |-> <<>>, typeName |-> ""]

\* fmt.Errorf("required key %s missing value", key)
RequiredErr(key) ==
    [type |-> "RequiredKeyMissing", key |-> key, value |-> <<>>, typeName |-> ""]

\* &ParseError{FieldName: key, TypeName: f.Type().String(), Value: value}
ParseError(key, typeName, value) ==
    [type |-> "ParseError", key |-> key, value |-> value, typeName |-> typeName]

\* *strconv.NumError, as returned by ParseInt, ParseUint and ParseBool.
NumError(value) ==
    [type |-> "NumError", key |-> "", value |-> value, typeName |-> ""]

\* The error a field type's own Decode method returns.
DecodeErr(value) ==
    [type |-> "DecodeError", key |-> "", value |-> value, typeName |-> ""]

\* The error a sink's Set method returns.
SetErr(key) ==
    [type |-> "SetError", key |-> key, value |-> <<>>, typeName |-> ""]

\* reflect's panic in Value.Interface on a value reached through an
\* unexported field.
InterfacePanic ==
    [type |-> "panic", key |-> "", value |-> <<>>, typeName |-> ""]

----------------------------------------------------------------------------
\* Field declarations (reflect.StructField) and values (reflect.Value).

\* kind is the Go kind of the field's type, tag the value of the struct tag
\* named by v.TagName(), def / req / ign the default, required and ignored
\* tags, sub the fields of a struct-kind field.
Field(kind, exported, anon, tag, def, req, ign, sub) ==
    [kind |-> kind, exported |-> exported, anon |-> anon, tag |-> tag,
     def |-> def, req |-> req, ign |-> ign, sub |-> sub]

\* A value: s holds a string's characters, n an integer, b a bool, l the
\* elements of an []int, nil whether a *int is nil, sub a struct's fields.
Val(s, n, b, l, nil, sub) ==
    [s |-> s, n |-> n, b |-> b, l |-> l, nil |-> nil, sub |-> sub]

\* Type.String() of the kinds drawn here.
TypeName(kind) ==
    CASE kind = "ints" -> "[]int"
      [] kind = "ptr" -> "*int"
      [] kind = "decoder" -> "Decoded"
      [] kind = "struct" -> "struct"
      [] OTHER -> kind

\* typ.Bits() of the integer kinds.
Bits(kind) == IF kind = "int8" THEN 8 ELSE 64

----------------------------------------------------------------------------
\* strconv, on character sequences.

Digits == <<"0", "1", "2", "3", "4", "5", "6", "7", "8", "9">>

IsDigit(c) == \E d \in 1..Len(Digits) : Digits[d] = c

DigitVal(c) == (CHOOSE d \in 1..Len(Digits) : Digits[d] = c) - 1

RECURSIVE Decimal(_)
Decimal(str) ==
    IF str = <<>> THEN 0
    ELSE 10 * Decimal(SubSeq(str, 1, Len(str) - 1)) + DigitVal(str[Len(str)])

\* strconv.ParseUint(value, 0, bits).  The literals drawn in this model have
\* no leading "0" and no "_", so base detection selects base 10; they are
\* below 2^31, so only widths under 31 bits can overflow.
ParseUint(value, bits) ==
    IF value = <<>> \/ \E k \in 1..Len(value) : ~IsDigit(value[k])
    THEN [err |-> NumError(value), n |-> 0]
    ELSE IF bits < 31 /\ Decimal(value) >= 2 ^ bits
         THEN [err |-> NumError(value), n |-> 0]
         ELSE [err |-> NoErr, n |-> Decimal(value)]

\* strconv.ParseInt(value, 0, bits): an optional sign, then the magnitude,
\* which must fit the signed width.
ParseInt(value, bits) ==
    LET neg  == value # <<>> /\ value[1] = "-"
        body == IF value # <<>> /\ value[1] \in {"+", "-"} THEN Tail(value) ELSE value
        u    == ParseUint(body, bits)
        lim  == IF bits < 31 THEN 2 ^ (bits - 1) ELSE 0
    IN  IF u.err # NoErr THEN [err |-> NumError(value), n |-> 0]
        ELSE IF bits < 31 /\ (IF neg THEN u.n > lim ELSE u.n >= lim)
             THEN [err |-> NumError(value), n |-> 0]
             ELSE [err |-> NoErr, n |-> IF neg THEN 0 - u.n ELSE u.n]

\* strconv.ParseBool
ParseBool(value) ==
    IF value \in {<<"1">>, <<"t">>, <<"T">>, <<"t", "r", "u", "e">>,
                  <<"T", "R", "U", "E">>, <<"T", "r", "u", "e">>}
    THEN [err |-> NoErr, b |-> TRUE]
    ELSE IF value \in {<<"0">>, <<"f">>, <<"F">>, <<"f", "a", "l", "s", "e">>,
                       <<"F", "A", "L", "S", "E">>, <<"F", "a", "l", "s", "e">>}
         THEN [err |-> NoErr, b |-> FALSE]
         ELSE [err |-> NumError(value), b |-> FALSE]

\* strings.Split(value, ","): always at least one piece.
RECURSIVE Split(_)
Split(value) ==
    IF \A k \in 1..Len(value) : value[k] # ","
    THEN <<value>>
    ELSE LET k == CHOOSE j \in 1..Len(value) :
                     value[j] = "," /\ \A h \in 1..(j - 1) : value[h] # ","
         IN  <<SubSeq(value, 1, k - 1)>> \o Split(SubSeq(value, k + 1, Len(value)))

----------------------------------------------------------------------------
\* Type coercion.

\* decoderFrom: the field's type, or a pointer to it, implements Decoder.
\* Of the kinds drawn here only "decoder" does.
decoderFrom(fd) == fd.kind = "decoder"

\* decoder.Decode(value): user code.  decOk is its outcome; a successful
\* Decode keeps the raw string in the receiver, a failing one leaves it alone.
Decode(value, cur, decOk) ==
    IF decOk THEN [err |-> NoErr, val |-> [cur EXCEPT !.s = value]]
    ELSE [err |-> DecodeErr(value), val |-> cur]

\* The loop of the reflect.Slice case over the pieces of an []int: the first
\* element that does not parse ends it with that element's error.
RECURSIVE SliceElems(_)
SliceElems(vals) ==
    IF vals = <<>> THEN [err |-> NoErr, l |-> <<>>]
    ELSE LET p == ParseInt(Head(vals), Bits("int"))
         IN  IF p.err # NoErr THEN [err |-> p.err, l |-> <<>>]
             ELSE LET rest == SliceElems(Tail(vals))
                  IN  IF rest.err # NoErr THEN rest
                      ELSE [err |-> NoErr, l |-> <<p.n>> \o rest.l]

\* processField(value, field): the error returned and the field's value
\* afterwards.  float and time.Duration fields are not drawn in this model.
processField(value, fd, cur, decOk) ==
    IF decoderFrom(fd) THEN Decode(value, cur, decOk)
    ELSE IF fd.kind = "ptr"
    THEN \* a nil *int is allocated before the parse, and stays allocated
         LET alloc == IF cur.nil THEN [cur EXCEPT !.nil = FALSE, !.n = 0] ELSE cur
             p     == ParseInt(value, Bits("int"))
         IN  IF p.err # NoErr THEN [err |-> p.err, val |-> alloc]
             ELSE [err |-> NoErr, val |-> [alloc EXCEPT !.n = p.n]]
    ELSE IF fd.kind = "string"
    THEN [err |-> NoErr, val |-> [cur EXCEPT !.s = value]]
    ELSE IF fd.kind \in {"int", "int8"}
    THEN LET p == ParseInt(value, Bits(fd.kind))
         IN  IF p.err # NoErr THEN [err |-> p.err, val |-> cur]
             ELSE [err |-> NoErr, val |-> [cur EXCEPT !.n = p.n]]
    ELSE IF fd.kind = "uint"
    THEN LET p == ParseUint(value, Bits(fd.kind))
         IN  IF p.err # NoErr THEN [err |-> p.err, val |-> cur]
             ELSE [err |-> NoErr, val |-> [cur EXCEPT !.n = p.n]]
    ELSE IF fd.kind = "bool"
    THEN LET p == ParseBool(value)
         IN  IF p.err # NoErr THEN [err |-> p.err, val |-> cur]
             ELSE [err |-> NoErr, val |-> [cur EXCEPT !.b = p.b]]
    ELSE IF fd.kind = "ints"
    THEN LET e == SliceElems(Split(value))
         IN  IF e.err # NoErr THEN [err |-> e.err, val |-> cur]
             ELSE [err |-> NoErr, val |-> [cur EXCEPT !.l = e.l]]
    ELSE \* any other kind (a struct): nothing is assigned, no error
         [err |-> NoErr, val |-> cur]

----------------------------------------------------------------------------
\* The structs, sources and calls drawn.

Keys == {"a", "b"}

\* What the source's Get may hold under a key: nothing, a number, a word.
SourceValues == {<<>>, <<"7">>, <<"x">>}

Leaf(kind, exported, tag, def, req, ign) ==
    Field(kind, exported, FALSE, tag, def, req, ign, <<>>)

\* An embedded (anonymous) struct field.
Embedded(exported, tag, req, ign, sub) ==
    Field("struct", exported, TRUE, tag, <<>>, req, ign, sub)

\* The fields embedded structs are made of.
Relationship == Leaf("string", TRUE, "b", <<>>, "", "")
Name         == Leaf("string", TRUE, "a", <<"z">>, "true", "")
CrashCount   == Leaf("int", TRUE, "a", <<>>, "true", "")
Disabled     == Leaf("string", TRUE, "a", <<"z">>, "true", "true")

\* The field declarations a struct is drawn from.
FieldDecls ==
    { CrashCount,
      Leaf("string", TRUE, "b", <<"z">>, "", ""),
      Leaf("string", TRUE, "a", <<>>, "false", ""),
      Disabled,
      Leaf("string", FALSE, "b", <<"z">>, "", ""),
      Leaf("string", TRUE, "", <<"z">>, "true", ""),
      Leaf("decoder", TRUE, "b", <<>>, "", ""),
      Leaf("ints", TRUE, "b", <<"1", ",", "2">>, "", ""),
      Leaf("ptr", TRUE, "a", <<>>, "", ""),
      Leaf("int8", TRUE, "b", <<"1", "2", "8">>, "", ""),
      Leaf("bool", TRUE, "a", <<"t">>, "", ""),
      Leaf("uint", TRUE, "a", <<>>, "", ""),
      \* a named (not embedded) struct field without the tag
      Field("struct", TRUE, FALSE, "", <<>>, "", "", <<Relationship>>),
      Embedded(TRUE, "", "", "", <<Relationship>>),
      Embedded(TRUE, "", "", "", <<Relationship, CrashCount>>),
      Embedded(TRUE, "", "", "true", <<Name>>),
      Embedded(TRUE, "a", "true", "", <<Relationship>>),
      Embedded(TRUE, "b", "", "", <<Name>>),
      Embedded(TRUE, "", "", "",
               <<Embedded(TRUE, "", "", "", <<CrashCount>>), Disabled>>),
      Embedded(FALSE, "", "", "", <<Name>>) }

Types == UNION { [1..n -> FieldDecls] : n \in 0..MaxFields }

Sources == [Keys -> SourceValues]

\* What the caller hands to Process / PopulateExternalSource as spec.
SpecKinds == {"ptrStruct", "struct", "ptrString", "string"}

\* The contents the caller's struct starts with.
RECURSIVE InitialRec(_)
InitialVal(fd) ==
    Val(IF fd.kind = "string" THEN <<"o">> ELSE <<>>,
        IF fd.kind \in {"int", "int8", "uint"} THEN 3 ELSE 0,
        FALSE, <<>>, fd.kind = "ptr", InitialRec(fd.sub))
InitialRec(fields) == [k \in 1..Len(fields) |-> InitialVal(fields[k])]

----------------------------------------------------------------------------
\* State.

VARIABLES
    typ,       \* the fields of the caller's struct type
    rec,       \* the caller's struct: the values of those fields
    src,       \* the contents of the TagValueGetter: key -> string
    pc,        \* "idle" before the first call, "running", "done"
    calls,     \* the calls made so far
    op,        \* the function called
    specKind,  \* what was passed as spec
    target,    \* the path from the caller's struct to the struct passed
    stack,     \* the activations of the function: struct path, loop index i
    gets,      \* the v.Get calls of this call, in order: key, field
    coerced,   \* the processField calls of this call: key, value, field,
               \* the error processField returned
    sets,      \* the v.Set calls of this call: key, value, field, answer
    result     \* what the call returned (or that it panicked)

vars == <<typ, rec, src, pc, calls, op, specKind, target, stack, gets,
          coerced, sets, result>>

RECURSIVE FieldsAt(_, _)
\* The field declarations of the struct at path.
FieldsAt(fields, path) ==
    IF path = <<>> THEN fields
    ELSE FieldsAt(fields[Head(path)].sub, Tail(path))

RECURSIVE ValsAt(_, _)
\* The field values of the struct at path.
ValsAt(vals, path) ==
    IF path = <<>> THEN vals
    ELSE ValsAt(vals[Head(path)].sub, Tail(path))

\* A write through a copy of the embedded struct: it never reaches the
\* caller's struct.
SetAtCopy(vals, path, i, v) ==
    IF path = <<>> THEN [vals EXCEPT ![i] = v] ELSE vals

RECURSIVE SetAt(_, _, _, _)
\* The struct with field i of the struct at path set to v: the embedded
\* struct is processed through f.Addr(), so the write lands in place.
SetAt(vals, path, i, v) ==
    IF path = <<>> THEN [vals EXCEPT ![i] = v]
    ELSE [vals EXCEPT ![Head(path)].sub = SetAt(@, Tail(path), i, v)]

Top == stack[Len(stack)]

\* s.Field(i) and typeOfSpec.Field(i) of the running activation.
CurField == FieldsAt(typ, Top.path)[Top.i]
CurVal == ValsAt(rec, Top.path)[Top.i]

\* i < s.NumField()
InLoop ==
    /\ pc = "running"
    /\ stack # <<>>
    /\ Top.i <= Len(FieldsAt(typ, Top.path))

\* i++
NextField(stk) == [stk EXCEPT ![Len(stk)].i = @ + 1]

\* f.CanSet(): the struct is reached through a pointer, so a field is
\* settable exactly when it is exported.
CanSet(fd) == fd.exported

\* A skip test that forgets the ignored tag.
SkippedUnsettable(fd) == ~CanSet(fd)

\* Line 72: the field is passed over.
Skipped(fd) == ~CanSet(fd) \/ fd.ign = "true"

\* A test that takes every struct-kind field for an embedded one.
IsEmbeddedAnyStruct(fd) == fd.kind = "struct"

\* typeOfSpec.Field(i).Anonymous && f.Kind() == reflect.Struct
IsEmbedded(fd) == fd.anon /\ fd.kind = "struct"

\* MockGetter.Get: the map's entry, "" for a key it lacks.
Get(key) == src[key]

\* An entry check that stops after the pointer test.
ValidSpecPointer(kind) == kind \in {"ptrStruct", "ptrString"}

\* Lines 62-68 and 225-232: spec is a pointer, and a pointer to a struct.
ValidSpec(kind) ==
    /\ kind \in {"ptrStruct", "ptrString"}
    /\ kind = "ptrStruct"

Init ==
    /\ typ \in Types
    /\ rec = InitialRec(typ)
    /\ src \in Sources
    /\ pc = "idle"
    /\ calls = 0
    /\ op = "none"
    /\ specKind = "none"
    /\ target = <<>>
    /\ stack = <<>>
    /\ gets = <<>>
    /\ coerced = <<>>
    /\ sets = <<>>
    /\ result = NoErr

\* A return of the outermost activation: err reaches the caller.  An error
\* inside an embedded struct is returned unchanged by every enclosing
\* activation, which does nothing else on the way out.
Return(err) ==
    /\ result' = err
    /\ stack' = <<>>
    /\ pc' = "done"

\* The entry of Process and of PopulateExternalSource: anything but a
\* pointer to a struct is refused.
Enter(name, kind, path) ==
    /\ op' = name
    /\ specKind' = kind
    /\ target' = path
    /\ calls' = calls + 1
    /\ gets' = <<>>
    /\ coerced' = <<>>
    /\ sets' = <<>>
    /\ IF ~ValidSpec(kind)
       THEN Return(ErrInvalidSpecification)
       ELSE /\ stack' = <<[path |-> path, i |-> 1]>>
            /\ pc' = "running"
            /\ result' = NoErr
    /\ UNCHANGED <<typ, rec, src>>

\* Process(v, spec) is called on the caller's struct.
CallProcess ==
    /\ pc = "idle"
    /\ \E kind \in SpecKinds : Enter("Process", kind, <<>>)

\* After Process(v, &spec) the caller calls Process(v, &spec.Embedded) on
\* one of the struct's embedded structs.
CallProcessEmbedded ==
    /\ pc = "done"
    /\ calls = 1
    /\ op = "Process"
    /\ specKind = "ptrStruct"
    /\ \E j \in 1..Len(typ) :
          /\ IsEmbedded(typ[j])
          /\ Enter("Process", "ptrStruct", <<j>>)

\* A default that overrides the value the source has.
DefaultFirst(got, def) == IF def # <<>> THEN def ELSE got

\* Lines 94-97: the default stands in for a missing value.
Default(got, def) == IF def # <<>> /\ got = <<>> THEN def ELSE got

\* A required test that takes any non-empty tag for "true".
RequiredNonEmpty(req) == req # ""

\* Line 101
Required(req) == req = "true"

\* The coercer's error passed on as it is.
FieldErrorVerbatim(perr, key, typeName, value) == perr

\* Lines 108-114: whatever error processField returned, Process returns a
\* new ParseError in its place.
FieldError(perr, key, typeName, value) == ParseError(key, typeName, value)

\* Lines 85-114 of Process for one field: the key, the Get call, the
\* default, the required check, the coercion.  called: v.Get was called;
\* handed: processField was called, with value, and returned perr; err is
\* the error Process returns (NoErr: the loop goes on); val is the field
\* afterwards.
ProcessKey(fd, cur, decOk) ==
    LET key == fd.tag IN
    IF key = ""
    THEN [called |-> FALSE, handed |-> FALSE, value |-> <<>>, perr |-> NoErr,
          err |-> NoErr, val |-> cur]
    ELSE
    LET got   == Get(key)
        def   == fd.def
        value == Default(got, def)
        req   == fd.req
    IN  IF value = <<>> /\ def = <<>>
        THEN [called |-> TRUE, handed |-> FALSE, value |-> value, perr |-> NoErr,
              err |-> IF Required(req) THEN RequiredErr(key) ELSE NoErr,
              val |-> cur]
        ELSE LET r == processField(value, fd, cur, decOk)
             IN  [called |-> TRUE, handed |-> TRUE, value |-> value,
                  perr |-> r.err,
                  err |-> IF r.err # NoErr
                          THEN FieldError(r.err, key, TypeName(fd.kind), value)
                          ELSE NoErr,
                  val |-> r.val]

\* A loop body that goes on to the next field after an error.
ApplyKeyNoReturn(stk, decOk) ==
    LET fr == stk[Len(stk)]
        at == Append(fr.path, fr.i)
        fd == FieldsAt(typ, fr.path)[fr.i]
        k  == ProcessKey(fd, ValsAt(rec, fr.path)[fr.i], decOk)
    IN  /\ gets' = IF k.called THEN Append(gets, [key |-> fd.tag, at |-> at])
                   ELSE gets
        /\ coerced' = IF k.handed
                      THEN Append(coerced, [key |-> fd.tag, value |-> k.value,
                                            at |-> at, err |-> k.perr])
                      ELSE coerced
        /\ rec' = SetAt(rec, fr.path, fr.i, k.val)
        /\ stack' = NextField(stk)
        /\ UNCHANGED <<pc, result>>

\* The effect of lines 85-114 on the state, for the field of the
\* activation on top of stk.
ApplyKey(stk, decOk) ==
    LET fr == stk[Len(stk)]
        at == Append(fr.path, fr.i)
        fd == FieldsAt(typ, fr.path)[fr.i]
        k  == ProcessKey(fd, ValsAt(rec, fr.path)[fr.i], decOk)
    IN  /\ gets' = IF k.called THEN Append(gets, [key |-> fd.tag, at |-> at])
                   ELSE gets
        /\ coerced' = IF k.handed
                      THEN Append(coerced, [key |-> fd.tag, value |-> k.value,
                                            at |-> at, err |-> k.perr])
                      ELSE coerced
        /\ rec' = SetAt(rec, fr.path, fr.i, k.val)
        /\ IF k.err # NoErr
           THEN Return(k.err)
           ELSE /\ stack' = NextField(stk)
                /\ UNCHANGED <<pc, result>>

\* Whether Decode is reached for fd, so that its outcome is an input.
Decodes(fd) ==
    /\ decoderFrom(fd)
    /\ fd.tag # ""
    /\ (Get(fd.tag) # <<>> \/ fd.def # <<>>)

\* Lines 72-74: a field that cannot be set, or is tagged ignored:"true".
ProcessSkip ==
    /\ InLoop
    /\ op = "Process"
    /\ Skipped(CurField)
    /\ stack' = NextField(stack)
    /\ UNCHANGED <<typ, rec, src, pc, calls, op, specKind, target, gets,
                   coerced, sets, result>>

\* Lines 76-78: Process is called on the address of an embedded struct.
ProcessEmbedded ==
    /\ InLoop
    /\ op = "Process"
    /\ ~Skipped(CurField)
    /\ IsEmbedded(CurField)
    /\ stack' = Append(stack, [path |-> Append(Top.path, Top.i), i |-> 1])
    /\ UNCHANGED <<typ, rec, src, pc, calls, op, specKind, target, gets,
                   coerced, sets, result>>

\* Line 116 in the activation for an embedded struct, then lines 78-114 in
\* its caller: the embedded struct was filled in place, f.Set stores it
\* over itself, and the loop body goes on with the embedded field's own key.
ProcessEmbeddedReturn ==
    /\ pc = "running"
    /\ op = "Process"
    /\ Len(stack) > 1
    /\ Top.i > Len(FieldsAt(typ, Top.path))
    /\ LET stk == SubSeq(stack, 1, Len(stack) - 1)
       IN  \E decOk \in BOOLEAN :
              /\ decOk \/ Decodes(FieldsAt(typ, stk[Len(stk)].path)[stk[Len(stk)].i])
              /\ ApplyKey(stk, decOk)
    /\ UNCHANGED <<typ, src, calls, op, specKind, target, sets>>

\* Lines 85-114 for a field that is not an embedded struct.
ProcessLeaf ==
    /\ InLoop
    /\ op = "Process"
    /\ ~Skipped(CurField)
    /\ ~IsEmbedded(CurField)
    /\ \E decOk \in BOOLEAN :
          /\ decOk \/ Decodes(CurField)
          /\ ApplyKey(stack, decOk)
    /\ UNCHANGED <<typ, src, calls, op, specKind, target, sets>>

\* Line 116 in the outermost activation: return nil.
ProcessReturn ==
    /\ pc = "running"
    /\ op = "Process"
    /\ Len(stack) = 1
    /\ Top.i > Len(FieldsAt(typ, Top.path))
    /\ Return(NoErr)
    /\ UNCHANGED <<typ, rec, src, calls, op, specKind, target, gets,
                   coerced, sets>>

\* PopulateExternalSource(v, spec) is called on the caller's struct.
CallPopulate ==
    /\ pc = "idle"
    /\ \E kind \in SpecKinds : Enter("PopulateExternalSource", kind, <<>>)

\* f.Interface() and f.Addr().Interface(): reflect panics on a value that
\* was reached through an unexported field.
CanInterface(fd) == fd.exported

\* Lines 239-241: PopulateExternalSource is called on the address of an
\* embedded struct.
PopulateEmbedded ==
    /\ InLoop
    /\ op = "PopulateExternalSource"
    /\ IsEmbedded(CurField)
    /\ IF CanInterface(CurField)
       THEN /\ stack' = Append(stack, [path |-> Append(Top.path, Top.i), i |-> 1])
            /\ UNCHANGED <<pc, result>>
       ELSE Return(InterfacePanic)
    /\ UNCHANGED <<typ, rec, src, calls, op, specKind, target, gets,
                   coerced, sets>>

\* Line 255 in the activation for an embedded struct, then lines 241-243
\* in its caller, whose loop goes on with the next field.
PopulateEmbeddedReturn ==
    /\ pc = "running"
    /\ op = "PopulateExternalSource"
    /\ Len(stack) > 1
    /\ Top.i > Len(FieldsAt(typ, Top.path))
    /\ stack' = NextField(SubSeq(stack, 1, Len(stack) - 1))
    /\ UNCHANGED <<typ, rec, src, pc, calls, op, specKind, target, gets,
                   coerced, sets, result>>

\* Lines 245-251: a field that is not an embedded struct.  A field with
\* the sink's tag is boxed and handed to v.Set; setOk is what Set answers.
PopulateSet ==
    /\ InLoop
    /\ op = "PopulateExternalSource"
    /\ ~IsEmbedded(CurField)
    /\ LET t == CurField.tag
       IN  IF t = ""
           THEN /\ stack' = NextField(stack)
                /\ UNCHANGED <<pc, result, sets>>
           ELSE IF ~CanInterface(CurField)
           THEN /\ Return(InterfacePanic)
                /\ UNCHANGED sets
           ELSE \E setOk \in BOOLEAN :
                   /\ sets' = Append(sets, [key |-> t, value |-> CurVal,
                                            at |-> Append(Top.path, Top.i),
                                            ok |-> setOk])
                   /\ IF setOk
                      THEN /\ stack' = NextField(stack)
                           /\ UNCHANGED <<pc, result>>
                      ELSE Return(SetErr(t))
    /\ UNCHANGED <<typ, rec, src, calls, op, specKind, target, gets, coerced>>

\* Line 255 in the outermost activation: return nil.
PopulateReturn ==
    /\ pc = "running"
    /\ op = "PopulateExternalSource"
    /\ Len(stack) = 1
    /\ Top.i > Len(FieldsAt(typ, Top.path))
    /\ Return(NoErr)
    /\ UNCHANGED <<typ, rec, src, calls, op, specKind, target, gets,
                   coerced, sets>>

Next ==
    \/ CallProcess
    \/ CallProcessEmbedded
    \/ ProcessSkip
    \/ ProcessEmbedded
    \/ ProcessEmbeddedReturn
    \/ ProcessLeaf
    \/ ProcessReturn
    \/ CallPopulate
    \/ PopulateEmbedded
    \/ PopulateEmbeddedReturn
    \/ PopulateSet
    \/ PopulateReturn

Spec == Init /\ [][Next]_vars

----------------------------------------------------------------------------
\* Properties.  They read the declarations directly (fd.anon, fd.ign, ...)
\* and state what a field must hold in literals.

Last(seq) == seq[Len(seq)]

\* The declaration and the value of the field at a path (a non-empty
\* sequence of field indices, outermost first).
DeclAt(at) == FieldsAt(typ, SubSeq(at, 1, Len(at) - 1))[at[Len(at)]]
ValueAt(vals, at) == ValsAt(vals, SubSeq(at, 1, Len(at) - 1))[at[Len(at)]]

RECURSIVE PathsOf(_)
\* The paths of the fields of a struct and of the structs inside it.
PathsOf(fields) ==
    UNION { {<<j>>} \cup {<<j>> \o p : p \in PathsOf(fields[j].sub)} :
            j \in 1..Len(fields) }

AllPaths == PathsOf(typ)

IsPrefix(p, q) == Len(p) <= Len(q) /\ SubSeq(q, 1, Len(p)) = p

\* Field p is visited after field q: a later field, or the field that
\* embeds q (its own key is looked at after its fields).
Later(p, q) ==
    \/ p # q /\ IsPrefix(p, q)
    \/ /\ ~IsPrefix(p, q)
       /\ ~IsPrefix(q, p)
       /\ \E k \in 1..Len(p) :
             /\ k <= Len(q)
             /\ SubSeq(p, 1, k - 1) = SubSeq(q, 1, k - 1)
             /\ p[k] > q[k]

\* A field of declaration fd holds the string value, converted to its type.
HoldsCoerced(fd, v, value) ==
    CASE fd.kind \in {"string", "decoder"} -> v.s = value
      [] fd.kind \in {"int", "int8", "uint"} ->
            /\ value = <<"7">> => v.n = 7
            /\ value = <<"1">> => v.n = 1
      [] fd.kind = "ptr" -> ~v.nil /\ (value = <<"7">> => v.n = 7)
      [] fd.kind = "bool" -> value \in {<<"t">>, <<"1">>} => v.b = TRUE
      [] fd.kind = "ints" ->
            /\ value = <<"7">> => v.l = <<7>>
            /\ value = <<"1", ",", "2">> => v.l = <<1, 2>>
      [] OTHER -> TRUE

\* The step looked up a key: v.Get was called once more.
KeyStep == op = "Process" /\ Len(gets') = Len(gets) + 1

\* C1: when Get returns "" for a processed field whose default is empty,
\* Process returns the "required key <key> missing value" error if required
\* is "true"; otherwise the field is left as it is and no error is returned.
C1_RequiredMissing ==
    [][ KeyStep =>
          LET g  == Last(gets')
              fd == DeclAt(g.at)
          IN  (src[g.key] = <<>> /\ fd.def = <<>>) =>
                 IF fd.req = "true"
                 THEN /\ pc' = "done"
                      /\ result' = [type |-> "RequiredKeyMissing", key |-> fd.tag,
                                    value |-> <<>>, typeName |-> ""]
                      /\ rec' = rec
                 ELSE /\ rec' = rec
                      /\ pc' = "running"
                      /\ result' = NoErr ]_vars

\* C1 witness: an optional field was left alone, then a required one failed.
C1_Witness ==
    /\ op = "Process"
    /\ pc = "done"
    /\ result.type = "RequiredKeyMissing"
    /\ Len(gets) = 2
    /\ DeclAt(gets[1].at).req = "false"
    /\ DeclAt(gets[1].at).def = <<>>
    /\ DeclAt(gets[2].at).req = "true"
    /\ src[gets[1].key] = <<>>
    /\ rec = InitialRec(typ)

\* C2: the string handed to processField is the value Get returned when it
\* is not empty, and the default when Get returned "" and the default is
\* not empty; after a successful Process each such field holds that string
\* converted to its type.
C2_DefaultSubstituted ==
    /\ [][ KeyStep =>
             LET g   == Last(gets')
                 fd  == DeclAt(g.at)
                 got == src[g.key]
             IN  /\ g.key = fd.tag
                 /\ (got = <<>> /\ fd.def = <<>>) => coerced' = coerced
                 /\ (got # <<>> \/ fd.def # <<>>) =>
                       /\ Len(coerced') = Len(coerced) + 1
                       /\ Last(coerced').at = g.at
                       /\ Last(coerced').key = g.key
                       /\ Last(coerced').value = IF got # <<>> THEN got ELSE fd.def ]_vars
    /\ [](op = "Process" /\ pc = "done" /\ result = NoErr =>
            \A k \in 1..Len(coerced) :
               HoldsCoerced(DeclAt(coerced[k].at), ValueAt(rec, coerced[k].at),
                            coerced[k].value))

\* C2 witness: a successful Process in which one field took its default
\* and another, which has a default too, took the source's value.
C2_Witness ==
    /\ op = "Process"
    /\ pc = "done"
    /\ result = NoErr
    /\ Len(coerced) = 2
    /\ src[coerced[1].key] = <<>>
    /\ coerced[1].value = <<"t">>
    /\ ValueAt(rec, coerced[1].at).b = TRUE
    /\ DeclAt(coerced[2].at).def = <<"1", ",", "2">>
    /\ coerced[2].value = <<"7">>
    /\ ValueAt(rec, coerced[2].at).l = <<7>>

\* What Process leaves in a field it processes directly: the source's
\* value, else the default, converted; the old contents if both are empty.
Populated(fd, v, old) ==
    LET value == IF src[fd.tag] # <<>> THEN src[fd.tag] ELSE fd.def
    IN  IF value = <<>> THEN v = old ELSE HoldsCoerced(fd, v, value)

\* Every tagged, settable, not ignored field of the embedded struct at
\* field j holds what Process on that struct alone gives it.
Filled(j) ==
    \A m \in 1..Len(typ[j].sub) :
       LET fd == typ[j].sub[m]
       IN  (fd.exported /\ fd.ign # "true" /\ fd.tag # "" /\ ~fd.anon) =>
              Populated(fd, rec[j].sub[m], InitialRec(typ)[j].sub[m])

\* The first call, on the whole struct, went through field j: it returned
\* nil, or the field it failed on is j itself or comes after j.
WentThrough(j) ==
    /\ op = "Process"
    /\ calls = 1
    /\ specKind = "ptrStruct"
    /\ pc = "done"
    /\ \/ result = NoErr
       \/ gets # <<>> /\ (Last(gets).at = <<j>> \/ Last(gets).at[1] > j)

\* Process(v, &spec.field j) returned nil.
DirectCallDone(j) ==
    /\ op = "Process"
    /\ calls = 2
    /\ target = <<j>>
    /\ pc = "done"
    /\ result = NoErr

\* C3: an embedded struct that is settable and not ignored is filled by
\* Process on the outer struct as Process on the embedded struct itself
\* fills it: each of its fields from its own key, whatever the outer
\* struct's other fields are and receive.
C3_EmbeddedPopulated ==
    \A j \in 1..Len(typ) :
       (typ[j].anon /\ typ[j].kind = "struct") =>
          /\ (typ[j].exported /\ typ[j].ign # "true" /\ WentThrough(j)) => Filled(j)
          /\ DirectCallDone(j) => Filled(j)

\* C3 witness: an outer string field under key a and an embedded struct
\* whose string field is under key b each hold the value of their own key.
C3_Witness ==
    /\ Len(typ) = 2
    /\ WentThrough(2)
    /\ result = NoErr
    /\ typ[1].kind = "string" /\ typ[1].tag = "a"
    /\ typ[2].anon /\ typ[2].kind = "struct" /\ typ[2].tag = ""
    /\ Len(typ[2].sub) = 1
    /\ typ[2].sub[1].kind = "string" /\ typ[2].sub[1].tag = "b"
    /\ src["a"] = <<"7">> /\ src["b"] = <<"x">>
    /\ rec[1].s = <<"7">>
    /\ rec[2].sub[1].s = <<"x">>

\* No call on field `at` or inside it was logged in log.
Untraversed(log, at) == \A k \in 1..Len(log) : ~IsPrefix(at, log[k].at)

\* C4: Process on the containing struct never modifies a field tagged
\* ignored:"true" and makes no Get call for it or for a key inside it;
\* Process called directly on an ignored embedded struct fills its fields.
C4_IgnoredUntouched ==
    /\ (op = "Process" /\ calls = 1) =>
          \A at \in AllPaths :
             DeclAt(at).ign = "true" =>
                /\ ValueAt(rec, at) = ValueAt(InitialRec(typ), at)
                /\ Untraversed(gets, at)
                /\ Untraversed(coerced, at)
                /\ \A k \in 1..Len(stack) : ~IsPrefix(at, stack[k].path)
    /\ \A j \in 1..Len(typ) :
          (typ[j].ign = "true" /\ DirectCallDone(j)) => Filled(j)

\* C4 witness: an ignored embedded struct kept its contents through
\* Process on the outer struct although its field has a default, and the
\* direct call then stored the default.
C4_Witness ==
    /\ Len(typ) = 1
    /\ typ[1].anon /\ typ[1].ign = "true"
    /\ typ[1].sub[1].def = <<"z">>
    /\ src["a"] = <<>>
    /\ DirectCallDone(1)
    /\ InitialRec(typ)[1].sub[1].s = <<"o">>
    /\ rec[1].sub[1].s = <<"z">>

RECURSIVE SetCalls(_, _, _, _)
\* The Set calls for fields k.. of the struct at path: one per field with a
\* non-empty tag, in declaration order, an embedded struct standing for the
\* calls of its own fields.
SetCalls(fields, vals, path, k) ==
    IF k > Len(fields) THEN <<>>
    ELSE (IF fields[k].anon /\ fields[k].kind = "struct"
          THEN SetCalls(fields[k].sub, vals[k].sub, Append(path, k), 1)
          ELSE IF fields[k].tag # ""
               THEN <<[key |-> fields[k].tag, value |-> vals[k],
                       at |-> Append(path, k), ok |-> TRUE]>>
               ELSE <<>>)
         \o SetCalls(fields, vals, path, k + 1)

\* C5: when PopulateExternalSource succeeds, its Set calls are exactly one
\* per field with a non-empty tag, in declaration order with each embedded
\* struct replaced by the calls for its fields, each with the tag value as
\* key and the field's current value.
C5_SetCallsInOrder ==
    (op = "PopulateExternalSource" /\ pc = "done" /\ result = NoErr) =>
       /\ sets = SetCalls(typ, InitialRec(typ), <<>>, 1)
       /\ rec = InitialRec(typ)

\* C5 witness: a tagged field, then an embedded struct with two tagged
\* fields: three calls; a struct with a named struct field without the tag
\* made no call for it.
C5_Witness ==
    /\ op = "PopulateExternalSource"
    /\ pc = "done"
    /\ result = NoErr
    /\ Len(typ) = 2
    /\ typ[2].anon /\ Len(typ[2].sub) = 2
    /\ Len(sets) = 3
    /\ sets[1].at = <<1>>
    /\ sets[1].value.s = <<"o">>
    /\ sets[2].at = <<2, 1>>
    /\ sets[3].at = <<2, 2>>
    /\ sets[3].value.n = 3

\* C6: a spec that is not a pointer to a struct makes Process and
\* PopulateExternalSource return ErrInvalidSpecification with no Get call,
\* no Set call and no change to the value.
C6_InvalidSpecification ==
    specKind \in {"struct", "ptrString", "string"} =>
       /\ pc = "done"
       /\ result = [type |-> "ErrInvalidSpecification", key |-> "",
                    value |-> <<>>, typeName |-> ""]
       /\ gets = <<>>
       /\ coerced = <<>>
       /\ sets = <<>>
       /\ stack = <<>>
       /\ rec = InitialRec(typ)

\* C6 witness: PopulateExternalSource was handed a pointer to a string
\* while a struct with a tagged field was at hand.
C6_Witness ==
    /\ op = "PopulateExternalSource"
    /\ specKind = "ptrString"
    /\ result.type = "ErrInvalidSpecification"
    /\ Len(typ) = 1 /\ typ[1].tag # "" /\ typ[1].exported

\* The processField call k was on a field with a custom Decoder, whose
\* Decode returned an error.
DecodeFailed(k) ==
    /\ op = "Process"
    /\ DeclAt(coerced[k].at).kind = "decoder"
    /\ coerced[k].err # NoErr

\* C7 as claimed: when Decode returns an error, Process returns that very
\* error.
C7_DecoderErrorVerbatim ==
    \A k \in 1..Len(coerced) :
       (DecodeFailed(k) /\ pc = "done") => result = coerced[k].err

\* C7: when Decode returns an error, processField returns that very error,
\* and Process returns in its place a ParseError with the field's key, the
\* field's type name and the string that was to be decoded.
C7_DecoderErrorReplaced ==
    \A k \in 1..Len(coerced) :
       DecodeFailed(k) =>
          /\ coerced[k].err = [type |-> "DecodeError", key |-> "",
                               value |-> coerced[k].value, typeName |-> ""]
          /\ k = Len(coerced)
          /\ pc = "done"
          /\ result = [type |-> "ParseError", key |-> coerced[k].key,
                       value |-> coerced[k].value, typeName |-> "Decoded"]

\* C7 witness: Decode failed on the source's value for key b.
C7_Witness ==
    /\ pc = "done"
    /\ coerced # <<>>
    /\ DecodeFailed(Len(coerced))
    /\ Last(coerced).value = <<"x">>
    /\ result.type = "ParseError"
    /\ result.key = "b"

\* The Get call k is for a field that fails: its value is required and
\* missing, or processField returned an error for it.
Fails(k) ==
    LET fd == DeclAt(gets[k].at)
    IN  \/ src[gets[k].key] = <<>> /\ fd.def = <<>> /\ fd.req = "true"
        \/ \E c \in 1..Len(coerced) :
              coerced[c].at = gets[k].at /\ coerced[c].err # NoErr

\* The calls of a log were made in traversal order.
InOrder(log) ==
    \A k, l \in 1..Len(log) : k < l => Later(log[l].at, log[k].at)

\* The fields that are not embedded structs.
LeafPaths == {at \in AllPaths : ~(DeclAt(at).anon /\ DeclAt(at).kind = "struct")}

\* C8: both traversals stop at the first field that produces an error and
\* return that field's error: the failing call is the last call made, no
\* later field is looked up, handed to Set or assigned, and the fields
\* assigned before it keep the values they were given.
C8_FailFast ==
    /\ op = "Process" =>
          /\ InOrder(gets) /\ InOrder(coerced)
          /\ sets = <<>>
          /\ \A k \in 1..Len(gets) :
                Fails(k) =>
                   /\ k = Len(gets)
                   /\ pc = "done"
                   /\ result.type \in {"RequiredKeyMissing", "ParseError"}
                   /\ result.key = gets[k].key
                   /\ \A c \in 1..Len(coerced) :
                         coerced[c].err # NoErr => coerced[c].at = gets[k].at
                   /\ calls = 1 =>
                         \A at \in LeafPaths :
                            Later(at, gets[k].at) =>
                               ValueAt(rec, at) = ValueAt(InitialRec(typ), at)
          /\ (pc = "done" /\ result # NoErr /\ specKind = "ptrStruct") =>
                gets # <<>> /\ Fails(Len(gets))
          /\ \A c \in 1..Len(coerced) :
                coerced[c].err = NoErr =>
                   HoldsCoerced(DeclAt(coerced[c].at), ValueAt(rec, coerced[c].at),
                                coerced[c].value)
    /\ op = "PopulateExternalSource" =>
          /\ InOrder(sets)
          /\ gets = <<>> /\ coerced = <<>>
          /\ rec = InitialRec(typ)
          /\ \A k \in 1..Len(sets) :
                ~sets[k].ok =>
                   /\ k = Len(sets)
                   /\ pc = "done"
                   /\ result = [type |-> "SetError", key |-> sets[k].key,
                                value |-> <<>>, typeName |-> ""]
          /\ (pc = "done" /\ result.type = "SetError") =>
                sets # <<>> /\ ~Last(sets).ok

\* C8 witness: inside an embedded struct one field was assigned and the
\* next failed; the outer struct's next field, tagged and settable, was
\* never looked up and holds what it held.
C8_Witness ==
    /\ op = "Process"
    /\ calls = 1
    /\ pc = "done"
    /\ result.type = "ParseError"
    /\ Len(typ) = 2
    /\ Len(gets) = 2
    /\ gets[1].at = <<1, 1>> /\ gets[2].at = <<1, 2>>
    /\ coerced[1].err = NoErr
    /\ rec[1].sub[1].s = <<"x">>
    /\ typ[2].tag = "b" /\ typ[2].exported /\ typ[2].ign # "true"
    /\ typ[2].kind = "string"
    /\ rec[2] = InitialRec(typ)[2]

\* A field none of whose enclosing fields, nor itself, is unexported or
\* tagged ignored:"true".
Open(at) ==
    \A n \in 1..Len(at) :
       LET fd == DeclAt(SubSeq(at, 1, n))
       IN  fd.exported /\ fd.ign # "true"

\* C9 as claimed: PopulateExternalSource never calls Set for, and never
\* recurses into, a field that is unexported or tagged ignored:"true".
C9_PopulateSkipsIgnored ==
    op = "PopulateExternalSource" =>
       /\ \A k \in 1..Len(sets) : Open(sets[k].at)
       /\ \A k \in 1..Len(stack) : stack[k].path # <<>> => Open(stack[k].path)

\* C10 as claimed: a tag placed on an embedded struct field itself is
\* ignored: no Get and no Set call is made with it, and Process does not
\* fail on the embedded field's own default / required annotations.
C10_EmbeddedTagIgnored ==
    /\ \A k \in 1..Len(gets) :
          ~(DeclAt(gets[k].at).anon /\ DeclAt(gets[k].at).kind = "struct")
    /\ \A k \in 1..Len(sets) :
          ~(DeclAt(sets[k].at).anon /\ DeclAt(sets[k].at).kind = "struct")

====
